---- MODULE Spec2Model ----
(***************************************************************************)
(* Spend-log record builder of litellm/proxy/spend_tracking/               *)
(* spend_tracking_utils.py.                                                *)
(*                                                                         *)
(* Python values are represented as follows.                               *)
(*   - an optional value (None, or a dict key that is absent) is the empty *)
(*     tuple <<>>; a present value v is the one-element tuple <<v>>;       *)
(*   - a str is a TLA+ string;                                             *)
(*   - a dict with a known key set is a record of optional values.         *)
(***************************************************************************)
EXTENDS Integers, Sequences, FiniteSets, TLC

VARIABLES
    general_settings,      \* litellm.proxy.proxy_server.general_settings
    secret_store_prompts,  \* get_secret_bool("STORE_PROMPTS_IN_SPEND_LOGS") is True
    master_key,            \* litellm.proxy.proxy_server.master_key
    clock,                 \* time.time(), in ticks
    kwargs,                \* the call context handed to get_logging_payload
    response_obj,          \* the response object handed to get_logging_payload
    spend_logs,            \* the records built so far, each with the tick it was built at
    ret                    \* the last direct call of a helper: its arguments and result

vars == <<general_settings, secret_store_prompts, master_key, clock, kwargs,
          response_obj, spend_logs, ret>>

\* ------------------------------------------------------------------ bounds
MaxClock == 2
MaxLogs == 2

\* ------------------------------------------------------------ Python values
None == <<>>
Some(v) == <<v>>
Val(o) == o[1]

\* x or y, for optional strings: x when x is truthy (not None, not "")
Truthy(o) == o # None /\ Val(o) # ""
PyOr(x, y) == IF Truthy(x) THEN x ELSE y

\* str(x) of an optional string
PyStr(o) == IF o = None THEN "None" ELSE Val(o)

\* str(x) of an optional bool
PyStrBool(o) == IF o = None THEN "None" ELSE IF Val(o) THEN "True" ELSE "False"

\* f"{time.time()}": the repr of the float clock value, one string per value
TimeStr(t) == ToString(t) \o ".0"

\* s.startswith(p)
StartsWith(s, p) == Len(s) >= Len(p) /\ SubSeq(s, 1, Len(p)) = p

\* --------------------------------------------------------------- constants
REDACTED_BY_LITELM_STRING == "REDACTED_BY_LITELM"
MASTER_KEY_ALIAS == "litellm_proxy_master_key"
CACHE_HIT_MARKER == "_cache_hit"

\* ------------------------------------------------------------------ hashing
\* hashlib.md5(s.encode()).hexdigest(): an ideal hash, one digest per input
md5(s) == "md5:" \o s

\* litellm.proxy.utils.hash_token: the sha256 hex digest of the token
hash_token(token) == "sha256:" \o token

\* ------------------------------------------------------- response object
\* A response object is [kind, id, object, data]: kind is "none" (None),
\* "dict", "model" (a pydantic BaseModel) or "other" (any other type);
\* id, object and data are the fields of the dict or of the model's dump.
\* data is a JSON value or the marker of a value json.dumps rejects.
UNSERIALIZABLE == "<bytes>"

EmptyDict == [id |-> None, object |-> None, data |-> None]

\* get_logging_payload, lines 147-166: the dict get_spend_logs_id receives
response_obj_dict(resp) ==
    IF resp.kind \in {"dict", "model"}
    THEN [id |-> resp.id, object |-> resp.object, data |-> resp.data]
    ELSE EmptyDict

JsonStr(s) == "\"" \o s \o "\""

\* json.dumps(d, sort_keys=True): the keys in sorted order, data < id < object
JsonDumpsSorted(d) ==
    LET items == (IF d.data = None THEN <<>> ELSE <<"\"data\": " \o JsonStr(Val(d.data))>>)
              \o (IF d.id = None THEN <<>> ELSE <<"\"id\": " \o JsonStr(Val(d.id))>>)
              \o (IF d.object = None THEN <<>> ELSE <<"\"object\": " \o JsonStr(Val(d.object))>>)
        Join[i \in 0..Len(items)] ==
            IF i = 0 THEN ""
            ELSE IF i = 1 THEN items[1]
            ELSE Join[i - 1] \o ", " \o items[i]
    IN "{" \o Join[Len(items)] \o "}"

\* str(d): the dict's repr, the keys in insertion order id, object, data
PyRepr(s) == "'" \o s \o "'"
DictRepr(d) ==
    LET items == (IF d.id = None THEN <<>> ELSE <<"'id': " \o PyRepr(Val(d.id))>>)
              \o (IF d.object = None THEN <<>> ELSE <<"'object': " \o PyRepr(Val(d.object))>>)
              \o (IF d.data = None THEN <<>> ELSE <<"'data': " \o Val(d.data)>>)
        Join[i \in 0..Len(items)] ==
            IF i = 0 THEN ""
            ELSE IF i = 1 THEN items[1]
            ELSE Join[i - 1] \o ", " \o items[i]
    IN "{" \o Join[Len(items)] \o "}"

\* whether json.dumps(d) succeeds
JsonSerializable(d) == d.data = None \/ Val(d.data) # UNSERIALIZABLE

generate_hash_from_response(d) ==
    IF JsonSerializable(d)
    THEN md5(JsonDumpsSorted(d))
    ELSE md5(DictRepr(d))

get_spend_logs_id_call_id_first(call_type, d, kw) ==
    IF call_type = "aretrieve_batch" \/ call_type = "acreate_file"
    THEN Some(generate_hash_from_response(d))
    ELSE PyOr(kw.litellm_call_id, d.id)

get_spend_logs_id_without_hash(call_type, d, kw) ==
    PyOr(d.id, kw.litellm_call_id)

\* lines 127-137
get_spend_logs_id(call_type, d, kw) ==
    IF call_type = "aretrieve_batch" \/ call_type = "acreate_file"
    THEN Some(generate_hash_from_response(d))
    ELSE PyOr(d.id, kw.litellm_call_id)

\* ------------------------------------------------------------ master key
\* secrets.compare_digest(a, b) on two str
compare_digest(a, b) == a = b

_is_master_key_no_hash(api_key, _master_key) ==
    IF _master_key = None THEN FALSE
    ELSE compare_digest(api_key, Val(_master_key))

_is_master_key(api_key, _master_key) ==
    IF _master_key = None THEN FALSE
    ELSE IF compare_digest(api_key, Val(_master_key)) THEN TRUE
    ELSE IF compare_digest(api_key, hash_token(Val(_master_key))) THEN TRUE
    ELSE FALSE

\* ---------------------------------------------------------- privacy policy
_should_store_unless_opted_out ==
    \/ general_settings.store_prompts_in_spend_logs = TRUE
    \/ secret_store_prompts # TRUE

_should_store_prompts_and_responses_in_spend_logs ==
    \/ general_settings.store_prompts_in_spend_logs = TRUE
    \/ secret_store_prompts = TRUE

\* ------------------------------------------------- vector store requests
\* vector_store_request_metadata is an optional list of requests
\*   [query, vector_store_search_response: optional [data: optional list of
\*      [content: optional list of [type, text: optional str]]]]
RedactContentItem(c) ==
    IF c.text # None THEN [c EXCEPT !.text = Some(REDACTED_BY_LITELM_STRING)] ELSE c

RedactResponseItem(item) ==
    IF item.content = None THEN item
    ELSE [item EXCEPT !.content =
            Some([i \in DOMAIN Val(item.content) |-> RedactContentItem(Val(item.content)[i])])]

RedactRequest(r) ==
    IF r.vector_store_search_response = None THEN r
    ELSE LET resp == Val(r.vector_store_search_response) IN
         IF resp.data = None THEN r
         ELSE [r EXCEPT !.vector_store_search_response =
                 Some([resp EXCEPT !.data =
                     Some([i \in DOMAIN Val(resp.data) |-> RedactResponseItem(Val(resp.data)[i])])])]

\* the list object after the call: the loop of lines 533-541 writes the
\* marker into the content items of the list it was given
VectorStoreRequestAfterCall(vsr) ==
    IF _should_store_prompts_and_responses_in_spend_logs THEN vsr
    ELSE IF vsr = None THEN None
    ELSE Some([i \in DOMAIN Val(vsr) |-> RedactRequest(Val(vsr)[i])])

_get_vector_store_request_unredacted(vsr) ==
    vsr

\* the value returned: the list object it was given, after the loop
_get_vector_store_request_for_spend_logs_payload(vsr) ==
    VectorStoreRequestAfterCall(vsr)

\* ------------------------------------------------ request body sanitizer
\* A request body is an object graph [root, objs]: objs maps an object's
\* identity (id(obj)) to [kind |-> "dict", items |-> <<<<key, value>>, ...>>]
\* or [kind |-> "list", items |-> <<value, ...>>]; a value is [ref |-> id]
\* (a dict or a list), [str |-> s] or [other |-> text] (a number, a bool,
\* null, as its JSON text).  The sanitized body is a tree of new objects:
\* [dict |-> <<<<key, tree>>, ...>>], [list |-> <<tree, ...>>], [str |-> s]
\* or [other |-> text].
MAX_STRING_LENGTH == 1000

\* the frames the interpreter has for one traversal: a path through more
\* objects than the graph holds repeats one, and only the dicts are guarded
RecursionLimit(g) == Cardinality(DOMAIN g.objs) + 1

Raised == [raised |-> TRUE]
Returned(v) == [raised |-> FALSE, val |-> v]

TruncateString(value) ==
    IF Len(value) > MAX_STRING_LENGTH
    THEN SubSeq(value, 1, MAX_STRING_LENGTH) \o "... (truncated "
         \o ToString(Len(value) - MAX_STRING_LENGTH) \o " chars)"
    ELSE value

RECURSIVE _sanitize_dict(_, _, _, _)
RECURSIVE _sanitize_value(_, _, _, _)
RECURSIVE _sanitize_items(_, _, _, _, _, _)

\* the items 1..i of a dict ({k: _sanitize_value(v) ...}) or of a list
\* ([_sanitize_value(item) ...]), left to right, sharing the visited set;
\* the result is [raised, outs, visited]
_sanitize_items(g, items, i, isDict, visited, frames) ==
    IF i = 0 THEN [raised |-> FALSE, outs |-> <<>>, visited |-> visited]
    ELSE LET prev == _sanitize_items(g, items, i - 1, isDict, visited, frames) IN
         IF prev.raised THEN prev
         ELSE LET v == IF isDict THEN items[i][2] ELSE items[i]
                  r == _sanitize_value(g, v, prev.visited, frames)
              IN IF r.raised THEN [raised |-> TRUE, outs |-> <<>>, visited |-> r.visited]
                 ELSE [raised |-> FALSE,
                       outs |-> Append(prev.outs,
                                       IF isDict THEN <<items[i][1], r.out>> ELSE r.out),
                       visited |-> r.visited]

\* _sanitize_value (lines 488-497); frames is the stack depth still free
_sanitize_value(g, value, visited, frames) ==
    IF "ref" \in DOMAIN value
    THEN IF g.objs[value.ref].kind = "dict"
         THEN _sanitize_dict(g, value.ref, visited, frames)
         ELSE IF frames = 0
              THEN [raised |-> TRUE, out |-> value, visited |-> visited]
              ELSE LET items == g.objs[value.ref].items
                       r == _sanitize_items(g, items, Len(items), FALSE, visited, frames - 1)
                   IN [raised |-> r.raised, out |-> [list |-> r.outs], visited |-> r.visited]
    ELSE IF "str" \in DOMAIN value
    THEN [raised |-> FALSE, out |-> [str |-> TruncateString(value.str)], visited |-> visited]
    ELSE [raised |-> FALSE, out |-> value, visited |-> visited]

\* _sanitize_request_body_for_spend_logs_payload(request_body, visited)
\* (lines 469-499) on the dict of identity obj_id
_sanitize_dict(g, obj_id, visited, frames) ==
    IF obj_id \in visited
    THEN [raised |-> FALSE, out |-> [dict |-> <<>>], visited |-> visited]
    ELSE IF frames = 0
    THEN [raised |-> TRUE, out |-> [dict |-> <<>>], visited |-> visited]
    ELSE LET items == g.objs[obj_id].items
             r == _sanitize_items(g, items, Len(items), TRUE, visited \cup {obj_id}, frames - 1)
         IN [raised |-> r.raised, out |-> [dict |-> r.outs], visited |-> r.visited]

\* the top-level call, visited = None
_sanitize_request_body_for_spend_logs_payload(g) ==
    LET r == _sanitize_dict(g, g.root, {}, RecursionLimit(g))
    IN IF r.raised THEN Raised ELSE Returned(r.out)

\* json.dumps(tree, default=str) of a sanitized body
RECURSIVE JsonDumps(_)
RECURSIVE JsonJoin(_, _, _)
JsonJoin(items, i, isDict) ==
    IF i = 0 THEN ""
    ELSE LET one == IF isDict
                    THEN JsonStr(items[i][1]) \o ": " \o JsonDumps(items[i][2])
                    ELSE JsonDumps(items[i])
         IN IF i = 1 THEN one ELSE JsonJoin(items, i - 1, isDict) \o ", " \o one

JsonDumps(tree) ==
    IF "dict" \in DOMAIN tree THEN "{" \o JsonJoin(tree.dict, Len(tree.dict), TRUE) \o "}"
    ELSE IF "list" \in DOMAIN tree THEN "[" \o JsonJoin(tree.list, Len(tree.list), FALSE) \o "]"
    ELSE IF "str" \in DOMAIN tree THEN JsonStr(tree.str)
    ELSE tree.other

EmptyBody == [root |-> 1, objs |-> (1 :> [kind |-> "dict", items |-> <<>>])]

\* ------------------------------------------------- privacy-gated bodies
_get_proxy_server_request_for_spend_logs_payload(metadata, litellm_params) ==
    IF _should_store_prompts_and_responses_in_spend_logs
    THEN LET _proxy_server_request == litellm_params.proxy_server_request IN
         IF _proxy_server_request # None
         THEN LET body == Val(_proxy_server_request).body
                  _request_body == _sanitize_request_body_for_spend_logs_payload(
                                       IF body = None THEN EmptyBody ELSE Val(body))
              IN IF _request_body.raised THEN Raised
                 ELSE Returned(JsonDumps(_request_body.val))
         ELSE Returned("{}")
    ELSE Returned("{}")

\* json.dumps(payload.get("response", {})): the response of the standard
\* logging payload is an optional str
ResponseJson(response) == IF response = None THEN "{}" ELSE JsonStr(Val(response))

_get_response_for_spend_logs_payload(payload) ==
    IF payload = None THEN "{}"
    ELSE IF _should_store_prompts_and_responses_in_spend_logs
    THEN ResponseJson(Val(payload).response)
    ELSE "{}"

_get_messages_for_spend_logs_payload(standard_logging_payload, metadata) == "{}"

\* ------------------------------------------------------- session, status
\* uuid4 is the value uuid.uuid4() returns when it is called
_get_session_id_for_spend_log(kw, standard_logging_payload, uuid4) ==
    IF standard_logging_payload # None /\ Val(standard_logging_payload).trace_id # None
    THEN PyStr(Val(standard_logging_payload).trace_id)
    ELSE IF kw.litellm_trace_id # None THEN PyStr(kw.litellm_trace_id)
    ELSE uuid4

_get_status_success_only_if_marked(metadata) ==
    IF metadata = None THEN Raised
    ELSE IF Val(metadata).status = Some("success") THEN Returned("success")
    ELSE Returned("failure")

\* metadata is None or a dict; None.get raises AttributeError
_get_status_for_spend_log(metadata) ==
    IF metadata = None THEN Raised
    ELSE LET _status == Val(metadata).status IN
         IF _status = Some("failure") THEN Returned("failure")
         ELSE Returned("success")

\* ------------------------------------------------------- record builder
\* litellm.litellm_core_utils.core_helpers.get_litellm_metadata_from_kwargs:
\* the metadata dict of litellm_params, {} when there is none
get_litellm_metadata_from_kwargs(kw) == kw.litellm_params.metadata

\* SpendLogsMetadata: the allow-listed keys of metadata, then the overlays
_get_spend_logs_metadata(metadata, vector_store_request_metadata) ==
    IF metadata = None
    THEN [user_api_key |-> None, status |-> Some("success"),
          vector_store_request_metadata |-> None]
    ELSE [user_api_key |-> Val(metadata).user_api_key,
          status |-> Val(metadata).status,
          vector_store_request_metadata |->
              _get_vector_store_request_for_spend_logs_payload(vector_store_request_metadata)]

disable_adding_master_key_hash_to_db ==
    general_settings.disable_adding_master_key_hash_to_db = TRUE

\* api_key of the record, lines 175-225
ApiKeyForSpendLog(metadata, standard_logging_payload) ==
    LET api_key0 == metadata.user_api_key
        hashed == IF api_key0 = None THEN None
                  ELSE IF StartsWith(Val(api_key0), "sk-")
                       THEN Some(hash_token(Val(api_key0))) ELSE api_key0
        api_key1 == IF hashed # None
                       /\ _is_master_key(Val(hashed), master_key)
                       /\ disable_adding_master_key_hash_to_db
                    THEN Some(MASTER_KEY_ALIAS) ELSE hashed
        api_key2 == IF standard_logging_payload # None
                    THEN PyOr(PyOr(api_key1,
                                   Val(standard_logging_payload).metadata.user_api_key_hash),
                              Some(""))
                    ELSE Some("")
        api_key3 == IF _is_master_key(PyStr(api_key2), master_key)
                       /\ disable_adding_master_key_hash_to_db
                    THEN Some(MASTER_KEY_ALIAS) ELSE api_key2
    IN PyStr(api_key3)

\* id after lines 168 and 285-288
RequestIdWithoutTime(kw, d, now) ==
    LET id == get_spend_logs_id(PyStr(PyOr(kw.call_type, Some("acompletion"))), d, kw)
    IN IF kw.cache_hit = Some(TRUE)
       THEN Some(PyStr(id) \o CACHE_HIT_MARKER)
       ELSE id

RequestIdForSpendLog(kw, d, now) ==
    LET id == get_spend_logs_id(PyStr(PyOr(kw.call_type, Some("acompletion"))), d, kw)
    IN IF kw.cache_hit = Some(TRUE)
       THEN Some(PyStr(id) \o CACHE_HIT_MARKER \o TimeStr(now))
       ELSE id

\* get_logging_payload(kwargs, response_obj, start_time, end_time) when
\* time.time() returns now and uuid.uuid4() returns uuid4
get_logging_payload(kw, resp, now, uuid4) ==
    LET metadata == get_litellm_metadata_from_kwargs(kw)
        standard_logging_payload == kw.standard_logging_object
        id == RequestIdForSpendLog(kw, response_obj_dict(resp), now)
        clean_metadata == _get_spend_logs_metadata(
            Some(metadata),
            IF standard_logging_payload # None
            THEN Val(standard_logging_payload).metadata.vector_store_request_metadata
            ELSE None)
        proxy_server_request ==
            _get_proxy_server_request_for_spend_logs_payload(metadata, kw.litellm_params)
        status == _get_status_for_spend_log(Some(metadata))
    IN IF proxy_server_request.raised \/ status.raised THEN Raised
       ELSE Returned([
           request_id |-> PyStr(id),
           call_type |-> PyStr(PyOr(kw.call_type, Some(""))),
           api_key |-> ApiKeyForSpendLog(metadata, standard_logging_payload),
           cache_hit |-> PyStrBool(IF kw.cache_hit = None THEN Some(FALSE) ELSE kw.cache_hit),
           metadata |-> clean_metadata,
           messages |-> _get_messages_for_spend_logs_payload(standard_logging_payload, metadata),
           response |-> _get_response_for_spend_logs_payload(standard_logging_payload),
           proxy_server_request |-> proxy_server_request.val,
           session_id |-> _get_session_id_for_spend_log(kw, standard_logging_payload, uuid4),
           status |-> status.val])

\* the call context after get_logging_payload returned or raised: the
\* vector store list of the standard logging payload is the list that
\* _get_vector_store_request_for_spend_logs_payload wrote into
KwargsAfterBuild(kw) ==
    IF kw.standard_logging_object = None THEN kw
    ELSE LET slp == Val(kw.standard_logging_object) IN
         [kw EXCEPT !.standard_logging_object =
             Some([slp EXCEPT !.metadata.vector_store_request_metadata =
                 VectorStoreRequestAfterCall(slp.metadata.vector_store_request_metadata)])]

\* --------------------------------------------------------------- inputs
RECURSIVE Repeat(_, _)
Repeat(s, n) ==
    IF n = 0 THEN ""
    ELSE IF n % 2 = 0 THEN LET h == Repeat(s, n \div 2) IN h \o h
    ELSE s \o Repeat(s, n - 1)

Keys == {"", "sk-1234", "sk-user", hash_token("sk-1234"), hash_token("sk-user")}
MasterKeys == {None, Some("sk-1234"), Some(hash_token("sk-user"))}
UUIDs == {"uuid-a", "uuid-b"}

Settings == [store_prompts_in_spend_logs : BOOLEAN,
             disable_adding_master_key_hash_to_db : BOOLEAN]

Responses ==
    {[kind |-> "none", id |-> None, object |-> None, data |-> None],
     [kind |-> "other", id |-> None, object |-> None, data |-> None]}
    \cup [kind : {"dict"}, id : {None, Some(""), Some("resp-1")},
          object : {Some("batch")}, data : {None, Some("[]"), Some(UNSERIALIZABLE)}]
    \cup [kind : {"model"}, id : {None, Some(""), Some("resp-1")},
          object : {Some("batch")}, data : {None}]

ContentItems == <<[type |-> "text", text |-> Some("retrieved passage")],
                  [type |-> "image", text |-> None]>>

VectorStoreRequests ==
    {None,
     Some(<<>>),
     Some(<<[query |-> "q", vector_store_search_response |-> None]>>),
     Some(<<[query |-> "q", vector_store_search_response |-> Some([data |-> None])],
            [query |-> "r", vector_store_search_response |->
                Some([data |-> Some(<<[content |-> None],
                                      [content |-> Some(ContentItems)]>>)])]>>)}

\* {"model": "m", "messages": [{"content": <1001 chars>}], "n": 1}
NestedBody ==
    [root |-> 1,
     objs |-> (1 :> [kind |-> "dict",
                     items |-> <<<<"model", [str |-> "m"]>>,
                                 <<"messages", [ref |-> 2]>>,
                                 <<"n", [other |-> "1"]>>>>]
            @@ 2 :> [kind |-> "list", items |-> <<[ref |-> 3]>>]
            @@ 3 :> [kind |-> "dict",
                     items |-> <<<<"content",
                                   [str |-> Repeat("a", MAX_STRING_LENGTH + 1)]>>>>])]

\* d = {"k": "v"}; d["self"] = d
SelfMapBody ==
    [root |-> 1,
     objs |-> (1 :> [kind |-> "dict",
                     items |-> <<<<"k", [str |-> "v"]>>, <<"self", [ref |-> 1]>>>>])]

\* d = {"items": [{"back": d}]}: the map holds itself through a list and a map
MapCycleBody ==
    [root |-> 1,
     objs |-> (1 :> [kind |-> "dict", items |-> <<<<"items", [ref |-> 2]>>>>]
            @@ 2 :> [kind |-> "list", items |-> <<[ref |-> 3]>>]
            @@ 3 :> [kind |-> "dict", items |-> <<<<"back", [ref |-> 1]>>>>])]

\* shared = {"x": "y"}; d = {"a": shared, "b": [shared]}: no cycle, one map twice
SharedMapBody ==
    [root |-> 1,
     objs |-> (1 :> [kind |-> "dict",
                     items |-> <<<<"a", [ref |-> 2]>>, <<"b", [ref |-> 3]>>>>]
            @@ 2 :> [kind |-> "dict", items |-> <<<<"x", [str |-> "y"]>>>>]
            @@ 3 :> [kind |-> "list", items |-> <<[ref |-> 2]>>])]

\* l = ["x"]; l.append(l); d = {"l": l}: a sequence that holds itself
SelfListBody ==
    [root |-> 1,
     objs |-> (1 :> [kind |-> "dict", items |-> <<<<"l", [ref |-> 2]>>>>]
            @@ 2 :> [kind |-> "list", items |-> <<[str |-> "x"], [ref |-> 2]>>])]

\* a = []; b = [a]; a.append(b); d = {"k": "v", "l": a}: two sequences in a cycle
ListCycleBody ==
    [root |-> 1,
     objs |-> (1 :> [kind |-> "dict",
                     items |-> <<<<"k", [str |-> "v"]>>, <<"l", [ref |-> 2]>>>>]
            @@ 2 :> [kind |-> "list", items |-> <<[ref |-> 3]>>]
            @@ 3 :> [kind |-> "list", items |-> <<[ref |-> 2]>>])]

RequestBodies == {EmptyBody, NestedBody, SelfMapBody, MapCycleBody, SharedMapBody,
                  SelfListBody, ListCycleBody}

ProxyServerRequests ==
    {None, Some([body |-> None]), Some([body |-> Some(EmptyBody)]),
     Some([body |-> Some(NestedBody)]), Some([body |-> Some(SelfMapBody)]),
     Some([body |-> Some(SelfListBody)])}

BaseMetadata == [user_api_key |-> Some(hash_token("sk-user")), status |-> None]

BaseStandardLoggingPayload ==
    [trace_id |-> Some("trace-slp"),
     metadata |-> [user_api_key_hash |-> Some(hash_token("sk-user")),
                   vector_store_request_metadata |-> None],
     response |-> Some("hello")]

BaseKwargs ==
    [call_type |-> Some("acompletion"),
     cache_hit |-> Some(FALSE),
     litellm_call_id |-> Some("call-1"),
     litellm_trace_id |-> Some("trace-kw"),
     litellm_params |-> [metadata |-> BaseMetadata, proxy_server_request |-> None],
     standard_logging_object |-> Some(BaseStandardLoggingPayload)]

BaseResponse == [kind |-> "dict", id |-> Some("resp-1"), object |-> Some("batch"),
                 data |-> None]

\* contexts that vary what the request id is derived from
IdContexts ==
    {<<[BaseKwargs EXCEPT !.call_type = ct, !.cache_hit = ch, !.litellm_call_id = cid,
                          !.standard_logging_object = slp], resp>> :
        ct \in {None, Some("acompletion"), Some("aretrieve_batch"), Some("acreate_file")},
        ch \in {None, Some(FALSE), Some(TRUE)},
        cid \in {None, Some("call-1")},
        slp \in {None, Some(BaseStandardLoggingPayload)},
        resp \in Responses}

\* contexts that vary the presented credential
KeyContexts ==
    {<<[BaseKwargs EXCEPT !.litellm_params.metadata.user_api_key = key,
                          !.standard_logging_object = slp], BaseResponse>> :
        key \in {None} \cup {Some(k) : k \in Keys},
        slp \in {None} \cup
              {Some([BaseStandardLoggingPayload EXCEPT !.metadata.user_api_key_hash = h]) :
                  h \in {None, Some(hash_token("sk-user"))}}}

\* contexts that vary the trace ids and the status
SessionContexts ==
    {<<[BaseKwargs EXCEPT !.litellm_trace_id = t,
                          !.litellm_params.metadata.status = st,
                          !.standard_logging_object = slp], BaseResponse>> :
        t \in {None, Some(""), Some("trace-kw")},
        st \in {None, Some("failure"), Some("pending")},
        slp \in {None} \cup
              {Some([BaseStandardLoggingPayload EXCEPT !.trace_id = s]) :
                  s \in {None, Some(""), Some("trace-slp")}}}

\* contexts that vary the bodies the privacy policy gates
PrivacyContexts ==
    {<<[BaseKwargs EXCEPT !.litellm_params.proxy_server_request = psr,
                          !.standard_logging_object = slp], BaseResponse>> :
        psr \in ProxyServerRequests,
        slp \in {None} \cup
              {Some([BaseStandardLoggingPayload EXCEPT
                        !.metadata.vector_store_request_metadata = vsr,
                        !.response = r]) :
                  vsr \in VectorStoreRequests, r \in {None, Some("hello")}}}

Contexts == IdContexts \cup KeyContexts \cup SessionContexts \cup PrivacyContexts

NoCall == [fn |-> "none"]

DefaultSettings == [store_prompts_in_spend_logs |-> FALSE,
                    disable_adding_master_key_hash_to_db |-> FALSE]

OptedInSettings == [store_prompts_in_spend_logs |-> TRUE,
                    disable_adding_master_key_hash_to_db |-> TRUE]

InitWith(contexts, settings, secrets, master_keys) ==
    /\ general_settings \in settings
    /\ secret_store_prompts \in secrets
    /\ master_key \in master_keys
    /\ clock = 0
    /\ \E c \in contexts : kwargs = c[1] /\ response_obj = c[2]
    /\ spend_logs = <<>>
    /\ ret = NoCall

\* every configuration for the contexts whose handling reads it; the
\* default and one other for the contexts that vary ids
InitConfigured(contexts) ==
    InitWith(contexts, Settings, BOOLEAN, {None, Some("sk-1234")})

InitDefault(contexts) ==
    \/ InitWith(contexts, {DefaultSettings}, {FALSE}, {None})
    \/ InitWith(contexts, {OptedInSettings}, {TRUE}, {Some("sk-1234")})

Init ==
    \/ InitConfigured(KeyContexts \cup PrivacyContexts)
    \/ InitDefault(IdContexts \cup SessionContexts)

config == <<general_settings, secret_store_prompts, master_key>>

\* ----------------------------------------------------------- operations
\* one call of get_logging_payload on the context; the record goes to the
\* persistence sink, an exception goes to the caller
Build ==
    /\ Len(spend_logs) < MaxLogs
    /\ \E uuid4 \in UUIDs :
          LET r == get_logging_payload(kwargs, response_obj, clock, uuid4) IN
          /\ spend_logs' = IF r.raised THEN spend_logs
                           ELSE Append(spend_logs,
                                       [row |-> r.val, at |-> clock, kwargs |-> kwargs])
          /\ ret' = [fn |-> "get_logging_payload", raised |-> r.raised]
    /\ kwargs' = KwargsAfterBuild(kwargs)
    /\ UNCHANGED <<config, clock, response_obj>>

\* time passes
Tick ==
    /\ clock < MaxClock
    /\ clock' = clock + 1
    /\ UNCHANGED <<config, kwargs, response_obj, spend_logs, ret>>

\* the logged call is served again, from the cache: the same context with
\* cache_hit = True
CacheReplay ==
    /\ Len(spend_logs) >= 1
    /\ kwargs.cache_hit # Some(TRUE)
    /\ kwargs' = [kwargs EXCEPT !.cache_hit = Some(TRUE)]
    /\ UNCHANGED <<config, clock, response_obj, spend_logs, ret>>

Next == Build \/ Tick \/ CacheReplay

Spec == Init /\ [][Next]_vars

\* ------------------------------------------------- direct helper calls
EmptyMetadata == [user_api_key |-> None, status |-> None]

Call_is_master_key ==
    /\ \E api_key \in Keys, _master_key \in MasterKeys :
          ret' = [fn |-> "_is_master_key", api_key |-> api_key,
                  master_key |-> _master_key,
                  val |-> _is_master_key(api_key, _master_key)]
    /\ UNCHANGED <<config, clock, kwargs, response_obj, spend_logs>>

Call_get_status_for_spend_log ==
    /\ \E metadata \in {None, Some(EmptyMetadata),
                         Some(get_litellm_metadata_from_kwargs(kwargs))} :
          ret' = [fn |-> "_get_status_for_spend_log", metadata |-> metadata,
                  result |-> _get_status_for_spend_log(metadata)]
    /\ UNCHANGED <<config, clock, kwargs, response_obj, spend_logs>>

Call_get_session_id_for_spend_log ==
    /\ \E uuid4 \in UUIDs :
          ret' = [fn |-> "_get_session_id_for_spend_log", kwargs |-> kwargs,
                  uuid4 |-> uuid4,
                  val |-> _get_session_id_for_spend_log(
                              kwargs, kwargs.standard_logging_object, uuid4)]
    /\ UNCHANGED <<config, clock, kwargs, response_obj, spend_logs>>

\* the list handed over is the one the standard logging payload holds
Call_get_vector_store_request_for_spend_logs_payload ==
    /\ kwargs.standard_logging_object # None
    /\ LET vsr == Val(kwargs.standard_logging_object).metadata.vector_store_request_metadata
       IN ret' = [fn |-> "_get_vector_store_request_for_spend_logs_payload",
                  arg |-> vsr,
                  val |-> _get_vector_store_request_for_spend_logs_payload(vsr)]
    /\ kwargs' = KwargsAfterBuild(kwargs)
    /\ UNCHANGED <<config, clock, response_obj, spend_logs>>

Call_get_proxy_server_request_for_spend_logs_payload ==
    /\ ret' = [fn |-> "_get_proxy_server_request_for_spend_logs_payload",
               litellm_params |-> kwargs.litellm_params,
               result |-> _get_proxy_server_request_for_spend_logs_payload(
                              get_litellm_metadata_from_kwargs(kwargs),
                              kwargs.litellm_params)]
    /\ UNCHANGED <<config, clock, kwargs, response_obj, spend_logs>>

Call_get_response_for_spend_logs_payload ==
    /\ ret' = [fn |-> "_get_response_for_spend_logs_payload",
               payload |-> kwargs.standard_logging_object,
               val |-> _get_response_for_spend_logs_payload(kwargs.standard_logging_object)]
    /\ UNCHANGED <<config, clock, kwargs, response_obj, spend_logs>>

\* a direct call with visited = None
Call_sanitize_request_body_for_spend_logs_payload ==
    /\ \E request_body \in RequestBodies :
          ret' = [fn |-> "_sanitize_request_body_for_spend_logs_payload",
                  request_body |-> request_body,
                  result |-> _sanitize_request_body_for_spend_logs_payload(request_body)]
    /\ UNCHANGED <<config, clock, kwargs, response_obj, spend_logs>>

InitHelpers ==
    \/ InitConfigured(PrivacyContexts)
    \/ InitDefault(SessionContexts)

NextHelpers ==
    \/ Call_is_master_key
    \/ Call_get_status_for_spend_log
    \/ Call_get_session_id_for_spend_log
    \/ Call_get_vector_store_request_for_spend_logs_payload
    \/ Call_get_proxy_server_request_for_spend_logs_payload
    \/ Call_get_response_for_spend_logs_payload
    \/ Call_sanitize_request_body_for_spend_logs_payload

SpecHelpers == InitHelpers /\ [][NextHelpers]_vars

\* ------------------------------------------------------------ properties
Logged == DOMAIN spend_logs
ResponseDict == response_obj_dict(response_obj)
IsHashedCallType(kw) ==
    kw.call_type \in {Some("aretrieve_batch"), Some("acreate_file")}
IsCacheHit(kw) == kw.cache_hit = Some(TRUE)

\* a natural id: the response has an id and it is not the empty string
HasNaturalId(d) == d.id # None /\ Val(d.id) # ""

\* C1: a record built without a cache hit, for a call type other than
\* aretrieve_batch and acreate_file, from a response that has a natural id,
\* has that id as its request_id, whatever litellm_call_id and the rest of
\* the context are.
C1_NaturalIdIsRequestId ==
    \A i \in Logged :
        LET e == spend_logs[i] IN
        (~IsCacheHit(e.kwargs) /\ ~IsHashedCallType(e.kwargs) /\ HasNaturalId(ResponseDict))
            => e.row.request_id = Val(ResponseDict.id)

C1_Witness ==
    \E i \in Logged :
        LET e == spend_logs[i] IN
        /\ ~IsCacheHit(e.kwargs) /\ ~IsHashedCallType(e.kwargs)
        /\ response_obj.kind = "model"
        /\ ResponseDict.id = Some("resp-1")
        /\ e.kwargs.litellm_call_id = Some("call-1")
        /\ e.row.request_id = "resp-1"

\* C2: a record built without a cache hit for call type aretrieve_batch or
\* acreate_file has the content hash of the response as its request_id: the
\* md5 of its JSON with sorted keys, or of its str() when it has no JSON;
\* neither the response's id nor litellm_call_id is used.
C2_HashedCallTypesUseContentHash ==
    \A i \in Logged :
        LET e == spend_logs[i] IN
        (~IsCacheHit(e.kwargs) /\ IsHashedCallType(e.kwargs))
            => /\ e.row.request_id = generate_hash_from_response(ResponseDict)
               /\ e.row.request_id = md5(IF JsonSerializable(ResponseDict)
                                         THEN JsonDumpsSorted(ResponseDict)
                                         ELSE DictRepr(ResponseDict))
               /\ e.row.request_id # PyStr(ResponseDict.id)
               /\ e.row.request_id # PyStr(e.kwargs.litellm_call_id)

C2_Witness ==
    \E i \in Logged :
        LET e == spend_logs[i] IN
        /\ ~IsCacheHit(e.kwargs)
        /\ e.kwargs.call_type = Some("aretrieve_batch")
        /\ ResponseDict.id = Some("resp-1")
        /\ e.kwargs.litellm_call_id = Some("call-1")
        /\ e.row.request_id = "md5:{\"id\": \"resp-1\", \"object\": \"batch\"}"

\* C3 (as claimed): a record built without a cache hit from a context in
\* which the response has no id and the caller gave no litellm_call_id has
\* the content hash of the response as its request_id.
C3_FallbackIsContentHash ==
    \A i \in Logged :
        LET e == spend_logs[i] IN
        (~IsCacheHit(e.kwargs) /\ ResponseDict.id = None
                              /\ e.kwargs.litellm_call_id = None)
            => e.row.request_id = generate_hash_from_response(ResponseDict)

\* C4: the request_id of a record built on a cache hit at tick t is the
\* request_id the context gives without the cache hit, then the cache-hit
\* marker, then the time t; two cache-hit records built at different ticks
\* have different request_ids, and a cache-hit record never has the
\* request_id of a record logged before it without the cache hit.
C4_CacheHitIdIsSuffixedAndFresh ==
    /\ \A i \in Logged :
          LET e == spend_logs[i]
              base == PyStr(RequestIdForSpendLog(
                          [e.kwargs EXCEPT !.cache_hit = Some(FALSE)], ResponseDict, e.at))
          IN IsCacheHit(e.kwargs) =>
                /\ StartsWith(e.row.request_id, base)
                /\ e.row.request_id = base \o "_cache_hit" \o TimeStr(e.at)
    /\ \A i, j \in Logged :
          LET a == spend_logs[i]
              b == spend_logs[j]
          IN /\ (i < j /\ IsCacheHit(a.kwargs) /\ IsCacheHit(b.kwargs) /\ a.at # b.at)
                    => a.row.request_id # b.row.request_id
             /\ (i < j /\ ~IsCacheHit(a.kwargs) /\ IsCacheHit(b.kwargs))
                    => /\ a.row.request_id # b.row.request_id
                       /\ b.row.request_id =
                              a.row.request_id \o "_cache_hit" \o TimeStr(b.at)

C4_Witness ==
    /\ Len(spend_logs) = 2
    /\ IsCacheHit(spend_logs[1].kwargs) /\ IsCacheHit(spend_logs[2].kwargs)
    /\ spend_logs[1].at # spend_logs[2].at
    /\ spend_logs[1].row.request_id = "resp-1_cache_hit0.0"
    /\ spend_logs[2].row.request_id = "resp-1_cache_hit1.0"

\* the content items of a vector store request list
ContentItemsOf(vsr) ==
    IF vsr = None THEN {}
    ELSE UNION {
        LET r == Val(vsr)[i] IN
        IF r.vector_store_search_response = None
           \/ Val(r.vector_store_search_response).data = None THEN {}
        ELSE LET data == Val(Val(r.vector_store_search_response).data) IN
             UNION { IF data[j].content = None THEN {}
                     ELSE {<<i, j, k, Val(data[j].content)[k]>> :
                              k \in DOMAIN Val(data[j].content)} : j \in DOMAIN data }
        : i \in DOMAIN Val(vsr) }

AllTextRedacted(vsr) ==
    \A c \in ContentItemsOf(vsr) :
        c[4].text # None => c[4].text = Some("REDACTED_BY_LITELM")

CalledVectorStore == ret.fn = "_get_vector_store_request_for_spend_logs_payload"

\* C5 (as claimed): in the list _get_vector_store_request_for_spend_logs_payload
\* returns, every content item that has a text field has the redaction
\* marker as its text, under both values of the store policy.
C5_RedactionIsUnconditional ==
    CalledVectorStore => AllTextRedacted(ret.val)

\* C5 (amended): when the store policy is false, every content item of the
\* returned list that has a text field has the redaction marker as its text
\* and nothing else of the list differs from the argument; when the policy
\* is true the list is returned as it was given.
C5_RedactionUnlessStoring ==
    CalledVectorStore =>
        IF _should_store_prompts_and_responses_in_spend_logs
        THEN ret.val = ret.arg
        ELSE /\ AllTextRedacted(ret.val)
             /\ {<<c[1], c[2], c[3], c[4].type, c[4].text # None>> : c \in ContentItemsOf(ret.val)}
                  = {<<c[1], c[2], c[3], c[4].type, c[4].text # None>> : c \in ContentItemsOf(ret.arg)}

C5_Witness ==
    /\ CalledVectorStore
    /\ ~_should_store_prompts_and_responses_in_spend_logs
    /\ \E c \in ContentItemsOf(ret.arg) : c[4].text = Some("retrieved passage")
    /\ \E c \in ContentItemsOf(ret.val) : c[4].text = Some("REDACTED_BY_LITELM")
    /\ \A c \in ContentItemsOf(ret.val) : c[4].text # Some("retrieved passage")

\* C6: when neither general_settings.store_prompts_in_spend_logs nor the
\* secret STORE_PROMPTS_IN_SPEND_LOGS is true,
\* _get_proxy_server_request_for_spend_logs_payload and
\* _get_response_for_spend_logs_payload return the string "{}".
C6_NothingStoredUnlessOptedIn ==
    (general_settings.store_prompts_in_spend_logs # TRUE /\ secret_store_prompts # TRUE)
        => /\ ret.fn = "_get_proxy_server_request_for_spend_logs_payload"
                => ~ret.result.raised /\ ret.result.val = "{}"
           /\ ret.fn = "_get_response_for_spend_logs_payload" => ret.val = "{}"

C6_Witness ==
    /\ general_settings.store_prompts_in_spend_logs # TRUE /\ secret_store_prompts # TRUE
    /\ ret.fn = "_get_proxy_server_request_for_spend_logs_payload"
    /\ ret.litellm_params.proxy_server_request = Some([body |-> Some(NestedBody)])
    /\ ret.result = Returned("{}")

HasRawCredential(kw) ==
    /\ kw.litellm_params.metadata.user_api_key # None
    /\ StartsWith(Val(kw.litellm_params.metadata.user_api_key), "sk-")

\* C7 (as claimed): a record built from a context whose metadata carries a
\* credential starting with "sk-" has as api_key the alias
\* "litellm_proxy_master_key" when the credential is the master key and
\* disable_adding_master_key_hash_to_db is true, and the hash of the
\* credential otherwise, with or without a standard logging payload.
C7_RawCredentialIsHashed ==
    \A i \in Logged :
        LET e == spend_logs[i]
            credential == Val(e.kwargs.litellm_params.metadata.user_api_key)
        IN HasRawCredential(e.kwargs) =>
              e.row.api_key =
                  IF master_key = Some(credential)
                     /\ general_settings.disable_adding_master_key_hash_to_db = TRUE
                  THEN "litellm_proxy_master_key"
                  ELSE hash_token(credential)

CalledIsMasterKey == ret.fn = "_is_master_key"

\* C8: _is_master_key(api_key, _master_key) is false when _master_key is
\* None; otherwise it is true exactly when api_key is _master_key or the
\* hash of _master_key.
C8_IsMasterKey ==
    CalledIsMasterKey =>
        IF ret.master_key = None THEN ret.val = FALSE
        ELSE ret.val = (\/ ret.api_key = Val(ret.master_key)
                        \/ ret.api_key = hash_token(Val(ret.master_key)))

C8_Witness ==
    /\ CalledIsMasterKey
    /\ ret.master_key = Some("sk-1234")
    /\ ret.api_key = hash_token("sk-1234")
    /\ ret.api_key # "sk-1234"
    /\ ret.val = TRUE

CalledGetStatus == ret.fn = "_get_status_for_spend_log"

\* C9 (as claimed): _get_status_for_spend_log never raises, whatever
\* metadata is (None included), and returns "failure" when the status of metadata is "failure"
\* and "success" otherwise.
C9_StatusIsTotal ==
    CalledGetStatus =>
        /\ ~ret.result.raised
        /\ ret.result.val = IF ret.metadata # None /\ Val(ret.metadata).status = Some("failure")
                            THEN "failure" ELSE "success"

\* C9 (amended): for every metadata that is a dict, _get_status_for_spend_log
\* does not raise and returns "failure" when the status of metadata is
\* "failure" and "success" otherwise, an absent status included.
C9_StatusOfDict ==
    (CalledGetStatus /\ ret.metadata # None) =>
        /\ ~ret.result.raised
        /\ ret.result.val = IF Val(ret.metadata).status = Some("failure")
                            THEN "failure" ELSE "success"

C9_Witness ==
    /\ CalledGetStatus
    /\ ret.metadata # None
    /\ Val(ret.metadata).status = Some("pending")
    /\ ret.result = Returned("success")

CalledGetSessionId == ret.fn = "_get_session_id_for_spend_log"

\* C10 (as claimed): _get_session_id_for_spend_log returns the trace_id of
\* the standard logging payload when there is one, else litellm_trace_id of
\* kwargs when there is one, else the fresh uuid, and what it returns is
\* never the empty string.
C10_SessionIdNonEmpty ==
    CalledGetSessionId =>
        LET slp == ret.kwargs.standard_logging_object IN
        /\ ret.val = IF slp # None /\ Val(slp).trace_id # None THEN Val(Val(slp).trace_id)
                     ELSE IF ret.kwargs.litellm_trace_id # None
                          THEN Val(ret.kwargs.litellm_trace_id)
                     ELSE ret.uuid4
        /\ ret.val # ""

CalledSanitize == ret.fn = "_sanitize_request_body_for_spend_logs_payload"

\* C11 (as claimed): _sanitize_request_body_for_spend_logs_payload returns
\* on every body, the bodies with self-references and cycles included, and
\* the branch of a map that holds itself comes back as the empty map.
C11_SanitizeTerminates ==
    CalledSanitize =>
        /\ ~ret.result.raised
        /\ ret.request_body = SelfMapBody =>
               ret.result.val = [dict |-> <<<<"k", [str |-> "v"]>>,
                                            <<"self", [dict |-> <<>>]>>>>]

\* C12 (as claimed): a call of get_logging_payload leaves the call context
\* as it was: kwargs, with its standard logging payload and the
\* vector_store_request_metadata of that payload, and the response object
\* are after the call what they were before it, under both values of the
\* store policy.
C12_BuildLeavesContextUnchanged ==
    [][Build => (kwargs' = kwargs /\ response_obj' = response_obj)]_vars

====
